---- MODULE Spec2Model ----
(***************************************************************************)
(* Model of the Cache class of cache.js (src/src/index.ts): an LRU store   *)
(* kept in a Map, a red-black tree of expiry buckets served by one         *)
(* setTimeout timer, and a memory / item-count budget enforced by a        *)
(* deferred, coalesced prune.  The event loop is modelled as a FIFO of     *)
(* setImmediate callbacks plus a set of outstanding timers; public calls,  *)
(* deferred callbacks and timer callbacks interleave one whole handler at  *)
(* a time.                                                                 *)
(***************************************************************************)
EXTENDS Integers, Sequences, FiniteSets, TLC

\* ---------------------------------------------------------------- bounds
\* Date.now() runs from 1 to MaxTime.
MaxTime == 2
\* A set is not issued when it would leave more than MaxQueue callbacks queued.
MaxQueue == 2

\* ------------------------------------------------------------- JS values
\* The JS number Infinity: larger than every number the model reaches.
Infinity == 1000000000
\* The JS value undefined (a Map miss, a get miss, an unset timer id).
Undefined == [t |-> "undefined"]
\* The id field of #timeout when no timer was ever stored in it.
NoTimer == 0
\* 1024 ** 2
BytesPerMb == 1048576

\* a + b on JS numbers
Plus(a, b) == IF a = Infinity \/ b = Infinity THEN Infinity ELSE a + b
\* a * b on JS numbers, a a fraction num / den or Infinity, b a positive integer
Times(a, b) == IF a.num = Infinity THEN Infinity ELSE (a.num * b) \div a.den
\* Math.max(a, b)
MathMax(a, b) == IF a < b THEN b ELSE a

\* ----------------------------------------------------------- input sets
Keys == {"k", "j"}
\* A number (8 bytes) and a boolean (4 bytes).
Values == {[t |-> "number", n |-> 1], [t |-> "boolean", b |-> TRUE]}
\* explicit ttl arguments of set
TtlArgs == {Infinity}
\* constructor options; maxMemoryInMb is a fraction of a megabyte (here 8 bytes)
\* or Infinity
TtlOptions == {1}
Options ==
    {[maxItems |-> 1, maxMemoryInMb |-> [num |-> Infinity, den |-> 1]],
     [maxItems |-> Infinity, maxMemoryInMb |-> [num |-> 1, den |-> 131072]]}

\* the values measureSize is applied to on its own
CodePoints == {65, 233, 8364, 128512}
Strings == {<<>>} \cup {<<c>> : c \in CodePoints}
               \cup {<<c, d>> : c, d \in CodePoints}
MeasuredValues ==
    [t : {"number"}, n : {-1, 0, 1}]
    \cup [t : {"boolean"}, b : BOOLEAN]
    \cup [t : {"undefined", "symbol", "function"}]
    \cup [t : {"string"}, str : Strings]
    \cup [t : {"bigint"}, n : {-256, -255, -1, 0, 1, 127, 128, 255, 256}]
    \cup [t : {"object"},
          json : [outcome : {"string"}, str : Strings]
                 \cup [outcome : {"undefined", "throws"}]]
    \cup [t : {"buffer"}, dataView : BOOLEAN, detached : BOOLEAN,
          length : 0..3]

VARIABLES
    ttl,              \* #ttl: default ttl
    maxItems,         \* #maxItems
    data,             \* #data: the Map, as the sequence of its entries in insertion order
    memory,           \* #memory: [current, max] in bytes
    timeout,          \* #timeout: [id, tree, timestamp]
    noPruneScheduled, \* #noPruneScheduled
    immediates,       \* the setImmediate queue (FIFO)
    timers,           \* the outstanding setTimeout timers: records [id, at]
    now,              \* Date.now()
    recency,          \* history: keys by their last set or successful get, oldest first
    lastOp            \* history: the last handler that ran, with its arguments and result

vars == <<ttl, maxItems, data, memory, timeout, noPruneScheduled, immediates,
          timers, now, recency, lastOp>>

\* ------------------------------------------------------------------ Map
\* Map.prototype.get
MapGet(d, key) ==
    IF \E i \in 1..Len(d) : d[i].key = key
    THEN d[CHOOSE i \in 1..Len(d) : d[i].key = key]
    ELSE Undefined

\* Map.prototype.delete
MapDelete(d, key) == SelectSeq(d, LAMBDA e : e.key # key)

\* Map.prototype.set: a new key goes last, an existing key keeps its place
MapSet(d, key, entry) ==
    IF \E i \in 1..Len(d) : d[i].key = key
    THEN [i \in 1..Len(d) |-> IF d[i].key = key THEN entry ELSE d[i]]
    ELSE Append(d, entry)

MapKeys(d) == {d[i].key : i \in 1..Len(d)}

\* ------------------------------------------------- functional-red-black-tree
\* The tree is a function from its keys (timestamps) to their values (Sets of keys).
EmptyTree == [x \in {} |-> {}]
\* tree.get(key)
TreeHas(tree, key) == key \in DOMAIN tree
\* tree.insert(key, value)
TreeInsert(tree, key, value) ==
    [x \in DOMAIN tree \cup {key} |-> IF x = key THEN value ELSE tree[x]]
\* tree.remove(key)
TreeRemove(tree, key) == [x \in DOMAIN tree \ {key} |-> tree[x]]
\* tree.begin.valid
TreeBeginValid(tree) == DOMAIN tree # {}
\* the largest key of the tree in the place of the smallest
TreeBeginKeyLargest(tree) ==
    CHOOSE x \in DOMAIN tree : \A y \in DOMAIN tree : x >= y

\* tree.begin.key (undefined on an empty tree)
TreeBeginKey(tree) ==
    CHOOSE x \in DOMAIN tree : \A y \in DOMAIN tree : x <= y

\* ------------------------------------------------------------ measureSize
\* A JS value is a record whose t is its typeof; a Buffer, ArrayBuffer or
\* typed view (typeof "object") has t = "buffer".
\* Buffer.byteLength(string): the UTF-8 length of a sequence of code points
Utf8Length(cp) ==
    IF cp < 128 THEN 1 ELSE IF cp < 2048 THEN 2 ELSE IF cp < 65536 THEN 3 ELSE 4
RECURSIVE BufferByteLength(_)
BufferByteLength(str) ==
    IF str = <<>> THEN 0
    ELSE Utf8Length(Head(str)) + BufferByteLength(Tail(str))

\* value.toString(2).length of a bigint: the binary digits, and the sign
RECURSIVE BinaryLength(_)
BinaryLength(n) ==
    IF n < 0 THEN 1 + BinaryLength(0 - n)
    ELSE IF n < 2 THEN 1
    ELSE 1 + BinaryLength(n \div 2)

\* Math.ceil(a / b), a >= 0 and b > 0
MathCeilDiv(a, b) == (a + b - 1) \div b

\* value.byteLength of a buffer or view: a DataView over a detached
\* ArrayBuffer throws a TypeError, every other detached view reads 0
ByteLengthThrows(value) == value.dataView /\ value.detached
ByteLength(value) == IF value.detached THEN 0 ELSE value.length

\* JSON.stringify(value) of an object is given by its outcome: a string, the
\* value undefined (toJSON gives undefined), or a throw (a cyclic structure);
\* Buffer.byteLength(undefined) throws too, and both land in the catch
StringifiedLength(value) ==
    IF value.json.outcome = "string" THEN BufferByteLength(value.json.str)
    ELSE 0

\* Cache.measureSize(value): whether the call throws
measureSizeThrows(value) ==
    value.t = "buffer" /\ ByteLengthThrows(value)

\* Cache.measureSize(value): the number it returns
measureSize(value) ==
    CASE value.t = "buffer" -> ByteLength(value)
      [] value.t = "string" -> BufferByteLength(value.str)
      [] value.t = "number" -> 8
      [] value.t = "boolean" -> 4
      [] value.t = "bigint" ->
             MathCeilDiv(IF value.n = 0 THEN 1 ELSE BinaryLength(value.n), 8) + 8
      [] value.t = "object" -> StringifiedLength(value)
      [] OTHER -> 0

\* The object: the private fields and the event loop's queues they feed.
This ==
    [ttl |-> ttl, maxItems |-> maxItems, data |-> data, memory |-> memory,
     timeout |-> timeout, noPruneScheduled |-> noPruneScheduled,
     immediates |-> immediates, timers |-> timers]

Install(s) ==
    /\ ttl' = s.ttl
    /\ maxItems' = s.maxItems
    /\ data' = s.data
    /\ memory' = s.memory
    /\ timeout' = s.timeout
    /\ noPruneScheduled' = s.noPruneScheduled
    /\ immediates' = s.immediates
    /\ timers' = s.timers

\* setTimeout: a handle no outstanding timer uses
FreshTimerId(s) ==
    CHOOSE n \in 1..(Cardinality(s.timers) + 1) : \A h \in s.timers : h.id # n

\* clearTimeout forgotten: the old timer stays outstanding
ClearTimeoutForgotten(tm, id) == tm

\* clearTimeout(id)
ClearTimeout(tm, id) == {h \in tm : h.id # id}

\* #scheduleNextTimer at Date.now() = t
scheduleNextTimer(s, t) ==
    LET cleared == IF s.timeout.id # NoTimer
                   THEN ClearTimeout(s.timers, s.timeout.id)
                   ELSE s.timers
        first == IF TreeBeginValid(s.timeout.tree)
                 THEN TreeBeginKey(s.timeout.tree) ELSE 0
        \* begin.key || Infinity: undefined and 0 both give Infinity
        timestamp == IF first = 0 THEN Infinity ELSE first
        s1 == [s EXCEPT !.timers = cleared, !.timeout.timestamp = timestamp]
        id == FreshTimerId(s1)
    IN  IF timestamp # Infinity
        THEN [s1 EXCEPT !.timeout.id = id,
                        !.timers = @ \cup {[id |-> id,
                                            at |-> t + MathMax(timestamp - t, 0)]}]
        ELSE s1

\* delete touching the pending-prune flag when the key is not stored
deleteResettingFlag(s, key, t) ==
    LET cache == MapGet(s.data, key) IN
    IF cache = Undefined THEN [s EXCEPT !.noPruneScheduled = TRUE]
    ELSE [s EXCEPT !.data = MapDelete(@, key),
                   !.memory.current = @ - cache.size]

\* delete taking the key out of its bucket and leaving the bucket, empty or not
deleteLeavingBucket(s, key, t) ==
    LET cache == MapGet(s.data, key) IN
    IF cache = Undefined THEN s
    ELSE
      LET s1 == [s EXCEPT !.data = MapDelete(@, key),
                          !.memory.current = @ - cache.size] IN
      IF cache.expiresAt = Infinity THEN s1
      ELSE IF ~TreeHas(s1.timeout.tree, cache.expiresAt) THEN s1
      ELSE [s1 EXCEPT !.timeout.tree[cache.expiresAt] = @ \ {key}]

\* delete without the rescheduling of the timer
deleteNoReschedule(s, key, t) ==
    LET cache == MapGet(s.data, key) IN
    IF cache = Undefined THEN s
    ELSE
      LET s1 == [s EXCEPT !.data = MapDelete(@, key),
                          !.memory.current = @ - cache.size] IN
      IF cache.expiresAt = Infinity THEN s1
      ELSE IF ~TreeHas(s1.timeout.tree, cache.expiresAt) THEN s1
      ELSE IF Cardinality(s1.timeout.tree[cache.expiresAt]) = 1
           THEN [s1 EXCEPT !.timeout.tree = TreeRemove(@, cache.expiresAt)]
           ELSE [s1 EXCEPT !.timeout.tree[cache.expiresAt] = @ \ {key}]

\* delete(key) at Date.now() = t
delete(s, key, t) ==
    LET cache == MapGet(s.data, key) IN
    IF cache = Undefined THEN s
    ELSE
      LET s1 == [s EXCEPT !.data = MapDelete(@, key),
                          !.memory.current = @ - cache.size] IN
      IF cache.expiresAt = Infinity THEN s1
      ELSE IF ~TreeHas(s1.timeout.tree, cache.expiresAt) THEN s1
      ELSE IF Cardinality(s1.timeout.tree[cache.expiresAt]) = 1
           THEN LET s2 == [s1 EXCEPT !.timeout.tree =
                                         TreeRemove(@, cache.expiresAt)]
                IN  IF cache.expiresAt = s2.timeout.timestamp
                    THEN scheduleNextTimer(s2, t)
                    ELSE s2
           ELSE [s1 EXCEPT !.timeout.tree[cache.expiresAt] = @ \ {key}]

\* the limits test of set without its memory half
OverLimitsItemsOnly(s) == s.maxItems < Len(s.data)

\* the limits test of set
OverLimits(s) ==
    \/ s.maxItems < Len(s.data)
    \/ s.memory.max < s.memory.current

\* set without its this.delete(key): Map.set overwrites the entry in place
setWithoutDelete(s, key, value, ttlArg, t) ==
    LET size == measureSize(value)
        expiresAt == Plus(t, ttlArg)
        s2 == [s EXCEPT !.data = MapSet(@, key, [key |-> key, size |-> size,
                                                 value |-> value,
                                                 expiresAt |-> expiresAt]),
                        !.memory.current = @ + size]
        s3 == IF s2.noPruneScheduled /\ OverLimits(s2)
              THEN [s2 EXCEPT !.noPruneScheduled = FALSE,
                              !.immediates = Append(@, [task |-> "prune"])]
              ELSE s2
    IN  IF expiresAt # Infinity
        THEN [s3 EXCEPT !.immediates =
                  Append(@, [task |-> "addTTL", key |-> key,
                             expiresAt |-> expiresAt])]
        ELSE s3

\* set evicting the oldest entry itself when a limit is exceeded
setEvictingInline(s, key, value, ttlArg, t) ==
    LET s1 == delete(s, key, t)
        size == measureSize(value)
        expiresAt == Plus(t, ttlArg)
        s2 == [s1 EXCEPT !.data = MapSet(@, key, [key |-> key, size |-> size,
                                                  value |-> value,
                                                  expiresAt |-> expiresAt]),
                         !.memory.current = @ + size]
        s3 == IF OverLimits(s2)
              THEN [s2 EXCEPT !.memory.current = @ - Head(s2.data).size,
                              !.data = Tail(@)]
              ELSE s2
    IN  IF expiresAt # Infinity
        THEN [s3 EXCEPT !.immediates =
                  Append(@, [task |-> "addTTL", key |-> key,
                             expiresAt |-> expiresAt])]
        ELSE s3

\* set(key, value, ttl) at Date.now() = t; ttlArg is the ttl after defaulting
set(s, key, value, ttlArg, t) ==
    LET s1 == delete(s, key, t)
        size == measureSize(value)
        expiresAt == Plus(t, ttlArg)
        s2 == [s1 EXCEPT !.data = MapSet(@, key, [key |-> key, size |-> size,
                                                  value |-> value,
                                                  expiresAt |-> expiresAt]),
                         !.memory.current = @ + size]
        s3 == IF s2.noPruneScheduled /\ OverLimits(s2)
              THEN [s2 EXCEPT !.noPruneScheduled = FALSE,
                              !.immediates = Append(@, [task |-> "prune"])]
              ELSE s2
    IN  IF expiresAt # Infinity
        THEN [s3 EXCEPT !.immediates =
                  Append(@, [task |-> "addTTL", key |-> key,
                             expiresAt |-> expiresAt])]
        ELSE s3

\* Live with the expiry test one millisecond early
LiveOneEarly(cache, t) == cache # Undefined /\ t + 1 < cache.expiresAt

\* Live with the expiry instant itself still live
LiveAtExpiry(cache, t) == cache # Undefined /\ t <= cache.expiresAt

\* the liveness test shared by get and has
Live(cache, t) == cache # Undefined /\ t < cache.expiresAt

\* get without the delete and re-insert that marks the key recently used
getNoReinsert(s, key, t) == s

\* get re-inserting every stored entry it finds, expired or not
getTouchingExpired(s, key, t) ==
    LET cache == MapGet(s.data, key) IN
    IF cache # Undefined
    THEN [s EXCEPT !.data = MapSet(MapDelete(@, key), key, cache)]
    ELSE s

\* get writing the entry back with Map.set alone: the key keeps its place
getInPlace(s, key, t) ==
    LET cache == MapGet(s.data, key) IN
    IF Live(cache, t)
    THEN [s EXCEPT !.data = MapSet(@, key, cache)]
    ELSE s

\* get(key): the state it leaves
get(s, key, t) ==
    LET cache == MapGet(s.data, key) IN
    IF Live(cache, t)
    THEN [s EXCEPT !.data = MapSet(MapDelete(@, key), key, cache)]
    ELSE s

\* get(key): the value it returns
getReturn(s, key, t) ==
    LET cache == MapGet(s.data, key) IN
    IF Live(cache, t) THEN cache.value ELSE Undefined

\* has(key)
has(s, key, t) == Live(MapGet(s.data, key), t)

\* clear without its clearTimeout
clearKeepingTimer(s) ==
    [s EXCEPT !.data = <<>>,
              !.memory.current = 0,
              !.timeout = [id |-> NoTimer, tree |-> EmptyTree,
                           timestamp |-> Infinity]]

\* clear()
clear(s) ==
    [s EXCEPT !.timers = ClearTimeout(@, s.timeout.id),
              !.data = <<>>,
              !.memory.current = 0,
              !.timeout = [id |-> NoTimer, tree |-> EmptyTree,
                           timestamp |-> Infinity]]

\* #prune's loop over #data.keys(): every key it visits is deleted, so the
\* iterator's next key is the head of what is left.  log records, for each
\* eviction, the entry and the size and memory the loop's test saw.
RECURSIVE pruneLoop(_, _)
pruneLoop(s, log) ==
    IF s.data = <<>> THEN [s |-> s, log |-> log]
    ELSE IF Len(s.data) < s.maxItems /\ s.memory.current < s.memory.max
         THEN [s |-> s, log |-> log]
         ELSE pruneLoop([s EXCEPT !.memory.current = @ - Head(s.data).size,
                                  !.data = Tail(@)],
                        Append(log, [entry |-> Head(s.data),
                                     size |-> Len(s.data),
                                     current |-> s.memory.current]))

\* #prune without the release of the flag
pruneKeepingFlag(s) == pruneLoop(s, <<>>)

\* #prune()
prune(s) == pruneLoop([s EXCEPT !.noPruneScheduled = TRUE], <<>>)

\* #addTTL(key, expiresAt) at Date.now() = t
addTTL(s, key, expiresAt, t) ==
    LET tree1 == IF TreeHas(s.timeout.tree, expiresAt)
                 THEN s.timeout.tree
                 ELSE TreeInsert(s.timeout.tree, expiresAt, {})
        s1 == [s EXCEPT !.timeout.tree =
                            [tree1 EXCEPT ![expiresAt] = @ \cup {key}]]
    IN  IF expiresAt < s1.timeout.timestamp
        THEN scheduleNextTimer(s1, t)
        ELSE s1

\* the reaping loop forgetting to subtract what it removes
SizeOfNothing(d, ks) == 0

\* the sizes of the entries of d whose key is in ks
RECURSIVE SizeOf(_, _)
SizeOf(d, ks) ==
    IF d = <<>> THEN 0
    ELSE (IF Head(d).key \in ks THEN Head(d).size ELSE 0) + SizeOf(Tail(d), ks)

\* #onKeyExpired's loop: pop every bucket whose timestamp is <= now = t
RECURSIVE expireLoop(_, _)
expireLoop(s, t) ==
    IF TreeBeginValid(s.timeout.tree) /\ TreeBeginKey(s.timeout.tree) <= t
    THEN LET first == TreeBeginKey(s.timeout.tree)
             keysToExpire == s.timeout.tree[first]
         IN  expireLoop(
                 [s EXCEPT !.data = SelectSeq(@, LAMBDA e : e.key \notin keysToExpire),
                           !.memory.current = @ - SizeOf(s.data, keysToExpire),
                           !.timeout.tree = TreeRemove(@, first)],
                 t)
    ELSE s

\* #onKeyExpired without the rescheduling for the buckets that remain
onKeyExpiredNoReschedule(s, t) == expireLoop([s EXCEPT !.timeout.id = NoTimer], t)

\* #onKeyExpired() at Date.now() = t
onKeyExpired(s, t) ==
    LET s1 == expireLoop([s EXCEPT !.timeout.id = NoTimer], t) IN
    IF TreeBeginValid(s1.timeout.tree)
    THEN scheduleNextTimer(s1, t)
    ELSE s1

\* ------------------------------------------------------------- histories
\* key becomes the most recently touched key
Touch(r, key) == Append(SelectSeq(r, LAMBDA x : x # key), key)
\* the recency history follows only the keys that are in the store
InStore(r, s) == SelectSeq(r, LAMBDA x : x \in MapKeys(s.data))

NoOp == [op |-> "none"]
\* the call a set record stands for
SetCall(r) ==
    [op |-> "set", key |-> r.key, value |-> r.value, ttl |-> r.ttl,
     expiresAt |-> r.expiresAt]

\* key is stored with a finite expiresAt and registered in the bucket of it
Registered(key) ==
    LET cache == MapGet(data, key) IN
    /\ cache # Undefined
    /\ cache.expiresAt # Infinity
    /\ TreeHas(timeout.tree, cache.expiresAt)
    /\ key \in timeout.tree[cache.expiresAt]

\* key is the last key of the bucket the timer is armed for
LastOfArmedBucket(key) ==
    /\ Registered(key)
    /\ timeout.tree[MapGet(data, key).expiresAt] = {key}
    /\ MapGet(data, key).expiresAt = timeout.timestamp

\* ------------------------------------------------------------ constructor
Init ==
    /\ ttl \in TtlOptions
    /\ \E options \in Options :
           /\ maxItems = options.maxItems
           /\ memory = [current |-> 0,
                        max |-> Times(options.maxMemoryInMb, BytesPerMb)]
    /\ data = <<>>
    /\ timeout = [id |-> NoTimer, tree |-> EmptyTree, timestamp |-> Infinity]
    /\ noPruneScheduled = TRUE
    /\ immediates = <<>>
    /\ timers = {}
    /\ now = 1
    /\ recency = <<>>
    /\ lastOp = [op |-> "new"]

\* constructor options outside their meaning: a negative ttl, a negative
\* maxItems, a negative maxMemoryInMb
MisuseOptions ==
    {[ttl |-> -1, maxItems |-> Infinity,
      maxMemoryInMb |-> [num |-> Infinity, den |-> 1]],
     [ttl |-> 1, maxItems |-> -1,
      maxMemoryInMb |-> [num |-> Infinity, den |-> 1]],
     [ttl |-> 1, maxItems |-> Infinity,
      maxMemoryInMb |-> [num |-> -1, den |-> 1]]}

\* new Cache(options) with options drawn from MisuseOptions
InitMisuse ==
    /\ \E options \in MisuseOptions :
           /\ ttl = options.ttl
           /\ maxItems = options.maxItems
           /\ memory = [current |-> 0,
                        max |-> Times(options.maxMemoryInMb, BytesPerMb)]
    /\ data = <<>>
    /\ timeout = [id |-> NoTimer, tree |-> EmptyTree, timestamp |-> Infinity]
    /\ noPruneScheduled = TRUE
    /\ immediates = <<>>
    /\ timers = {}
    /\ now = 1
    /\ recency = <<>>
    /\ lastOp = [op |-> "new"]

\* ---------------------------------------------------------------- actions
\* cache.set(key, value, ttlArg)
SetWith(key, value, ttlArg) ==
    /\ LET s == set(This, key, value, ttlArg, now) IN
           /\ Len(s.immediates) <= MaxQueue
           /\ Install(s)
           /\ recency' = InStore(Touch(recency, key), s)
    /\ lastOp' = [op |-> "set", key |-> key, value |-> value, ttl |-> ttlArg,
                  expiresAt |-> Plus(now, ttlArg),
                  replaced |-> key \in MapKeys(data)]
    /\ UNCHANGED now

\* cache.set(key, value, ttl)
Set == \E key \in Keys, value \in Values, ttlArg \in TtlArgs :
           SetWith(key, value, ttlArg)

\* cache.set(key, value): ttl defaults to #ttl
SetDefault == \E key \in Keys, value \in Values : SetWith(key, value, ttl)

\* explicit ttl arguments of set that are finite and not positive
NonPositiveTtls == {0, -1}

\* cache.set(key, value, ttl) with ttl <= 0
SetNonPositive == \E key \in Keys, value \in Values, ttlArg \in NonPositiveTtls :
                      SetWith(key, value, ttlArg)

\* cache.get(key)
Get ==
    \E key \in Keys :
        /\ LET s == get(This, key, now)
               result == getReturn(This, key, now)
           IN  /\ Install(s)
               /\ recency' = IF result # Undefined
                             THEN InStore(Touch(recency, key), s)
                             ELSE recency
               /\ lastOp' = [op |-> "get", key |-> key, result |-> result,
                             at |-> now,
                             prev |-> IF lastOp.op = "set" THEN SetCall(lastOp) ELSE NoOp]
        /\ UNCHANGED now

\* has marking the key recently used, as get does
HasTouching ==
    \E key \in Keys :
        /\ Install(get(This, key, now))
        /\ lastOp' = [op |-> "has", key |-> key, result |-> has(This, key, now)]
        /\ UNCHANGED <<now, recency>>

\* cache.has(key)
Has ==
    \E key \in Keys :
        /\ lastOp' = [op |-> "has", key |-> key, result |-> has(This, key, now)]
        /\ UNCHANGED <<ttl, maxItems, data, memory, timeout, noPruneScheduled,
                       immediates, timers, now, recency>>

\* cache.delete(key)
Delete ==
    \E key \in Keys :
        /\ LET s == delete(This, key, now) IN
               /\ Install(s)
               /\ recency' = InStore(recency, s)
        /\ lastOp' = [op |-> "delete", key |-> key,
                      present |-> key \in MapKeys(data),
                      lastOfArmed |-> LastOfArmedBucket(key)]
        /\ UNCHANGED now

\* cache.clear()
Clear ==
    /\ Install(clear(This))
    /\ recency' = InStore(recency, clear(This))
    /\ lastOp' = [op |-> "clear", armed |-> timers # {}]
    /\ UNCHANGED now

\* the event loop runs the oldest setImmediate callback: () => this.#prune()
RunPrune ==
    /\ immediates # <<>>
    /\ Head(immediates).task = "prune"
    /\ LET r == prune([This EXCEPT !.immediates = Tail(@)]) IN
           /\ Install(r.s)
           /\ recency' = InStore(recency, r.s)
           /\ lastOp' = [op |-> "prune", evictions |-> r.log, order |-> recency,
                         prev |-> IF lastOp.op = "set" THEN SetCall(lastOp) ELSE NoOp]
    /\ UNCHANGED now

\* the event loop runs the oldest setImmediate callback:
\* () => this.#addTTL(key, expiresAt)
RunAddTTL ==
    /\ immediates # <<>>
    /\ Head(immediates).task = "addTTL"
    /\ Install(addTTL([This EXCEPT !.immediates = Tail(@)],
                      Head(immediates).key, Head(immediates).expiresAt, now))
    /\ lastOp' = [op |-> "addTTL"]
    /\ UNCHANGED <<now, recency>>

\* a timer whose time has come fires: () => this.#onKeyExpired()
TimerFires ==
    \E h \in timers :
        /\ h.at <= now
        /\ LET s == onKeyExpired([This EXCEPT !.timers = @ \ {h}], now) IN
               /\ Install(s)
               /\ recency' = InStore(recency, s)
               /\ lastOp' = [op |-> "onKeyExpired", at |-> now,
                             reaped |-> {data[i] : i \in {j \in 1..Len(data) :
                                            data[j].key \notin MapKeys(s.data)}}]
        /\ UNCHANGED now

\* a millisecond passes
Tick ==
    /\ now < MaxTime
    /\ now' = now + 1
    /\ UNCHANGED <<ttl, maxItems, data, memory, timeout, noPruneScheduled,
                   immediates, timers, recency, lastOp>>

\* Cache.measureSize(value), the static method called on its own
MeasureSize ==
    \E value \in MeasuredValues :
        /\ lastOp' = [op |-> "measureSize", value |-> value,
                      throws |-> measureSizeThrows(value),
                      result |-> measureSize(value)]
        /\ UNCHANGED <<ttl, maxItems, data, memory, timeout, noPruneScheduled,
                       immediates, timers, now, recency>>

Next ==
    \/ Set
    \/ SetDefault
    \/ Get
    \/ Has
    \/ Delete
    \/ Clear
    \/ RunPrune
    \/ RunAddTTL
    \/ TimerFires
    \/ Tick

Spec == Init /\ [][Next]_vars

\* The handlers that can run within one millisecond: the clock does not
\* advance, so no timer comes due.
NextNoClock ==
    \/ Set
    \/ SetDefault
    \/ Get
    \/ Has
    \/ Delete
    \/ Clear
    \/ RunPrune
    \/ RunAddTTL

\* The event loop always gets to the setImmediate callbacks that are queued.
FairSpec ==
    /\ Init
    /\ [][NextNoClock]_vars
    /\ WF_vars(RunPrune)
    /\ WF_vars(RunAddTTL)

\* The same handlers on a cache constructed from MisuseOptions.
MisuseSpec == InitMisuse /\ [][Next]_vars

\* Cache.measureSize applied to the values of MeasuredValues.
MeasureSpec == Init /\ [][MeasureSize]_vars

\* The handlers when every set is given a non-positive ttl.
NextNonPositive ==
    \/ SetNonPositive
    \/ Get
    \/ Has
    \/ Delete
    \/ Clear
    \/ RunPrune
    \/ RunAddTTL
    \/ TimerFires
    \/ Tick

NonPositiveSpec == Init /\ [][NextNonPositive]_vars

TypeOK ==
    /\ memory.current >= 0
    /\ Len(immediates) <= MaxQueue
    /\ now \in 1..MaxTime

\* ------------------------------------------------------------------ claims
Entries == {data[i] : i \in 1..Len(data)}
PendingPrune == \E i \in 1..Len(immediates) : immediates[i].task = "prune"
WithinLimits == Len(data) <= maxItems /\ memory.current <= memory.max

\* a get that directly follows a set of the same key with ttl > 0, before
\* that set's expiresAt (no other handler ran in between)
GetRightAfterSet ==
    /\ lastOp.op = "get"
    /\ lastOp.prev.op = "set"
    /\ lastOp.prev.key = lastOp.key
    /\ lastOp.prev.ttl > 0
    /\ lastOp.at < lastOp.prev.expiresAt

\* C1: round trip. set(k, v, ttl) with ttl > 0 directly followed by get(k),
\* before expiresAt and with no deferred callback in between, returns v.
C1_RoundTrip == GetRightAfterSet => lastOp.result = lastOp.prev.value

\* C1 witness: such a get, of an entry with a finite ttl, with another key stored
C1_Witness ==
    /\ GetRightAfterSet
    /\ lastOp.prev.ttl # Infinity
    /\ Len(data) = 2

\* C2: a prune pass never evicts an entry at a moment when size <= maxItems
\* and current <= maxMemoryBytes already both hold.
C2_NoUnnecessaryEviction ==
    lastOp.op = "prune" =>
        \A i \in 1..Len(lastOp.evictions) :
            ~(/\ lastOp.evictions[i].size <= maxItems
              /\ lastOp.evictions[i].current <= memory.max)

\* C3: with maxItems >= 1 and unbounded memory, the entry written by a set
\* is still in the store after the prune pass that directly follows that set.
C3_NewestSurvivesPrune ==
    (/\ lastOp.op = "prune"
     /\ lastOp.prev.op = "set"
     /\ maxItems >= 1
     /\ memory.max = Infinity)
    => lastOp.prev.key \in MapKeys(data)

\* C4, its two halves as state predicates: a prune is pending whenever a limit
\* is exceeded, and a prune pass leaves the store within both limits.
C4_PrunePending == ~WithinLimits => (PendingPrune /\ ~noPruneScheduled)
C4_PruneRestoresLimits == lastOp.op = "prune" => WithinLimits

\* C4: memory convergence. Whenever a limit is exceeded a prune is pending
\* (queued, with the flag recording it), and once the queued callbacks have
\* run a state within both limits is reached.
C4_MemoryConvergence ==
    /\ []C4_PrunePending
    /\ (~WithinLimits ~> WithinLimits)

\* C4 witness: a prune pass has evicted and left the store within both limits
C4_Witness ==
    /\ lastOp.op = "prune"
    /\ lastOp.evictions # <<>>
    /\ WithinLimits

\* C5: LRU ordering. The keys a prune pass evicts are, oldest first, a prefix
\* of the recency order given by the last set or successful get of each key.
C5_LruOrdering ==
    lastOp.op = "prune" =>
        /\ Len(lastOp.evictions) <= Len(lastOp.order)
        /\ [i \in 1..Len(lastOp.evictions) |-> lastOp.evictions[i].entry.key]
               = SubSeq(lastOp.order, 1, Len(lastOp.evictions))

\* C5 witness: a prune pass that evicted from a store of two entries
C5_Witness ==
    /\ lastOp.op = "prune"
    /\ lastOp.evictions # <<>>
    /\ Len(lastOp.order) = 2

\* C6: lazy expiry on read. For every stored entry with finite expiresAt, at
\* every instant now >= expiresAt has(key) is false and get(key) returns
\* undefined, although the entry is still counted by size.
C6_LazyExpiry ==
    \A e \in Entries :
        (e.expiresAt # Infinity /\ now >= e.expiresAt) =>
            /\ ~has(This, e.key, now)
            /\ getReturn(This, e.key, now) = Undefined

\* C6 witness: an entry past its expiresAt is still in the store
C6_Witness ==
    \E e \in Entries : e.expiresAt # Infinity /\ now >= e.expiresAt

\* C7: no early expiry. The timer callback never removes an entry that was
\* set with a finite ttl and whose own expiresAt is still in the future.
C7_NoEarlyExpiry ==
    lastOp.op = "onKeyExpired" =>
        \A e \in lastOp.reaped :
            e.expiresAt # Infinity => e.expiresAt <= lastOp.at

\* C8: expired entries are physically reaped. Stated for finite runs: when
\* no callback is queued and no timer is outstanding, nothing runs again
\* until the next call, so no entry with a finite expiresAt is left stored.
C8_ReapingStaysArmed ==
    (immediates = <<>> /\ timers = {})
        => \A e \in Entries : e.expiresAt = Infinity

\* C9: single timer. At most one timer is outstanding.
C9_SingleTimer == Cardinality(timers) <= 1

\* C9 witness: one timer outstanding while two expiry timestamps are tracked
C9_Witness ==
    /\ Cardinality(timers) = 1
    /\ Cardinality(DOMAIN timeout.tree) >= 2

\* C10: a key whose stored entry has expiresAt = Infinity is in no bucket of
\* the expiry tree.
C10_NeverExpiringNotIndexed ==
    \A e \in Entries :
        e.expiresAt = Infinity =>
            \A x \in DOMAIN timeout.tree : e.key \notin timeout.tree[x]

\* the sum of size over the entries of the store d
RECURSIVE SumOfSizes(_)
SumOfSizes(d) == IF d = <<>> THEN 0 ELSE Head(d).size + SumOfSizes(Tail(d))

\* C11: memory counter invariant. Between any two handlers, #memory.current
\* equals the sum of size over the entries in the store and is not negative.
C11_MemoryCounter ==
    /\ memory.current = SumOfSizes(data)
    /\ memory.current >= 0

\* C11 witness: the timer callback has reaped an entry and left another one
\* stored
C11_Witness ==
    /\ lastOp.op = "onKeyExpired"
    /\ lastOp.reaped # {}
    /\ data # <<>>

\* the private fields and the event loop's queues are left as they were
ObjectUnchanged ==
    UNCHANGED <<ttl, maxItems, data, memory, timeout, noPruneScheduled,
                immediates, timers>>

\* C12: delete of an absent key is a no-op. A delete(key) of a key that is not
\* in the store leaves the store and its order, the memory counter, the
\* expiry tree, the timer and the pending-prune flag unchanged.
C12_DeleteAbsentNoOp ==
    [][(/\ lastOp'.op = "delete"
        /\ now' = now
        /\ lastOp'.key \notin MapKeys(data)) => ObjectUnchanged]_vars

\* C12 witness: a delete of an absent key has run while another key is
\* stored, a prune is pending and the expiry tree is not empty
C12_Witness ==
    /\ lastOp.op = "delete"
    /\ ~lastOp.present
    /\ data # <<>>
    /\ ~noPruneScheduled
    /\ timeout.tree # EmptyTree

\* C13: delete(k) of a stored key removes exactly k. The entry of k leaves
\* the store, current drops by its size, and every other stored key keeps its
\* entry, its place in the order and its membership of the bucket of its own
\* expiresAt in the expiry tree.
C13_DeleteRemovesOnlyKey ==
    [][(/\ lastOp'.op = "delete"
        /\ now' = now
        /\ lastOp'.key \in MapKeys(data)) =>
           /\ data' = MapDelete(data, lastOp'.key)
           /\ memory'.current =
                  memory.current - MapGet(data, lastOp'.key).size
           /\ \A e \in Entries :
                  (/\ e.key # lastOp'.key
                   /\ TreeHas(timeout.tree, e.expiresAt)
                   /\ e.key \in timeout.tree[e.expiresAt])
                  => /\ TreeHas(timeout'.tree, e.expiresAt)
                     /\ e.key \in timeout'.tree[e.expiresAt]]_vars

\* C14: clear() postcondition. From any state, when clear() returns the store
\* is empty, current is 0, the expiry tree is empty, no timer is outstanding
\* (so a timer armed before the clear cannot fire after it), and the limits
\* and the default ttl are what they were.
C14_ClearPostcondition ==
    [][(lastOp'.op = "clear" /\ now' = now) =>
           /\ data' = <<>>
           /\ memory'.current = 0
           /\ timeout'.tree = EmptyTree
           /\ timeout'.id = NoTimer
           /\ timers' = {}
           /\ UNCHANGED <<ttl, maxItems>>
           /\ memory'.max = memory.max]_vars

\* C14 witness: clear() has run on a cache whose timer was armed
C14_Witness == lastOp.op = "clear" /\ lastOp.armed

\* C15: no deferred work survives a clear. A #prune or #addTTL callback that
\* a set queued before clear() changes nothing when it runs after the clear:
\* the expiry tree stays empty, no timer becomes armed, the store stays empty.
C15_NoDeferredWorkSurvivesClear ==
    [][(/\ lastOp.op = "clear"
        /\ lastOp'.op \in {"prune", "addTTL"}) =>
           /\ timeout'.tree = EmptyTree
           /\ timers' = {}
           /\ data' = <<>>]_vars

\* a set step: the handler that ran is set(lastOp'.key, lastOp'.value,
\* lastOp'.ttl)
SetStep == lastOp'.op = "set" /\ now' = now

\* C16: set is last-write-wins replacement. After set(k, v2, ttl2) on a key
\* that already holds an entry, the store holds exactly one entry for k, with
\* value v2, size measureSize(v2) and expiresAt = now + ttl2, in the newest
\* position; the number of entries is unchanged and current changes by
\* measureSize(v2) minus the old entry's size.
C16_LastWriteWins ==
    [][(SetStep /\ lastOp'.key \in MapKeys(data)) =>
           /\ Len(data') = Len(data)
           /\ Cardinality({i \in 1..Len(data') : data'[i].key = lastOp'.key}) = 1
           /\ data'[Len(data')] =
                  [key |-> lastOp'.key, value |-> lastOp'.value,
                   size |-> measureSize(lastOp'.value),
                   expiresAt |-> Plus(now, lastOp'.ttl)]
           /\ memory'.current =
                  memory.current + measureSize(lastOp'.value)
                      - MapGet(data, lastOp'.key).size]_vars

\* C16 witness: a set has replaced an entry while another key, with an entry
\* of another size, is stored
C16_Witness ==
    /\ lastOp.op = "set"
    /\ lastOp.replaced
    /\ Len(data) = 2
    /\ data[1].size # data[2].size

\* C17: set never evicts synchronously. When set(k, v) returns, every entry
\* that was stored before the call under another key is still stored, in the
\* same order, also when the store is then over maxItems or over the memory
\* limit.
C17_NoSynchronousEviction ==
    [][SetStep =>
           MapDelete(data', lastOp'.key) = MapDelete(data, lastOp'.key)]_vars

\* C17 witness: a set has returned leaving two entries in a store that is
\* over one of its limits
C17_Witness ==
    /\ lastOp.op = "set"
    /\ ~WithinLimits
    /\ Len(data) = 2

\* C18: has(key) is a pure read. For a key that is stored and live, stored
\* and expired, or absent, has changes nothing: the store and its order (the
\* order #prune evicts in), the memory counter, the expiry tree, the timer
\* and the pending-prune flag.
C18_HasPureRead ==
    [][(lastOp'.op = "has" /\ now' = now) => ObjectUnchanged]_vars

\* C18 witness: has has found the oldest of two entries live, and it is still
\* the oldest
C18_Witness ==
    /\ lastOp.op = "has"
    /\ lastOp.result
    /\ Len(data) = 2
    /\ data[1].key = lastOp.key

\* C19: get(key) of a key that is not stored, or whose stored entry has
\* expired and is not yet reaped, returns undefined and changes nothing: the
\* expired entry is neither removed nor moved to the newest position.
C19_GetAbsentOrExpired ==
    [][(/\ lastOp'.op = "get"
        /\ now' = now
        /\ LET cache == MapGet(data, lastOp'.key) IN
               cache = Undefined \/ now >= cache.expiresAt) =>
           /\ lastOp'.result = Undefined
           /\ ObjectUnchanged]_vars

\* C19 witness: get has returned undefined for an expired entry that is the
\* oldest of two, and it is still stored as the oldest
C19_Witness ==
    /\ lastOp.op = "get"
    /\ lastOp.result = Undefined
    /\ Len(data) = 2
    /\ data[1].key = lastOp.key
    /\ lastOp.at >= data[1].expiresAt

\* the options the constructor was given are outside their meaning
Misconfigured == ttl < 0 \/ maxItems < 0 \/ memory.max < 0

\* C20: configuration misuse is rejected at construction. new Cache with a
\* negative ttl, maxItems or maxMemoryInMb throws and leaves no instance to
\* call: no handler ever runs on a cache with such a configuration.
C20_MisuseRejected == Misconfigured => lastOp.op = "new"

\* C21: the size estimator is total. measureSize never throws and returns a
\* non-negative integer: 8 for a number, 4 for a boolean, 0 for undefined, a
\* symbol, a function and an object whose serialization fails.
C21_EstimatorTotal ==
    lastOp.op = "measureSize" =>
        /\ ~lastOp.throws
        /\ lastOp.result \in Nat
        /\ lastOp.value.t = "number" => lastOp.result = 8
        /\ lastOp.value.t = "boolean" => lastOp.result = 4
        /\ lastOp.value.t \in {"undefined", "symbol", "function"}
               => lastOp.result = 0
        /\ (lastOp.value.t = "object" /\ lastOp.value.json.outcome # "string")
               => lastOp.result = 0

\* a deferred #addTTL is still queued
PendingAddTTL == \E i \in 1..Len(immediates) : immediates[i].task = "addTTL"

\* C22: the timer tracks the minimum. Whenever no deferred #addTTL is queued
\* and the expiry tree is not empty, a timer is outstanding and
\* #timeout.timestamp is the smallest timestamp in the tree; also for
\* registrations made after a timer callback has emptied the tree.
C22_TimerTracksMinimum ==
    (~PendingAddTTL /\ TreeBeginValid(timeout.tree)) =>
        /\ timers # {}
        /\ timeout.timestamp = TreeBeginKey(timeout.tree)

\* C23: the deferred TTL registration acts on the current state. When
\* #addTTL(key, expiresAt) runs after its key was deleted, or replaced by a
\* set with another or an unbounded ttl, it does not put the key in the bucket
\* of the stale expiresAt.
C23_RegistrationChecksStore ==
    [][(/\ lastOp'.op = "addTTL"
        /\ now' = now
        /\ immediates # <<>>
        /\ Head(immediates).task = "addTTL"
        /\ LET cache == MapGet(data, Head(immediates).key) IN
               \/ cache = Undefined
               \/ cache.expiresAt # Head(immediates).expiresAt
        /\ ~(/\ TreeHas(timeout.tree, Head(immediates).expiresAt)
              /\ Head(immediates).key
                     \in timeout.tree[Head(immediates).expiresAt])) =>
           ~(/\ TreeHas(timeout'.tree, Head(immediates).expiresAt)
             /\ Head(immediates).key
                    \in timeout'.tree[Head(immediates).expiresAt])]_vars

\* C24: pruning keeps the expiry tree in step. After a prune pass, no key it
\* evicted with a finite expiresAt is left in the bucket of that expiresAt.
C24_PruneCleansIndex ==
    lastOp.op = "prune" =>
        \A i \in 1..Len(lastOp.evictions) :
            LET e == lastOp.evictions[i].entry IN
            (e.expiresAt # Infinity /\ TreeHas(timeout.tree, e.expiresAt))
                => e.key \notin timeout.tree[e.expiresAt]

\* the #prune callbacks that are queued
QueuedPrunes == {i \in 1..Len(immediates) : immediates[i].task = "prune"}

\* C25, the states: at most one #prune is queued, and #noPruneScheduled is
\* false exactly when one is queued and has not begun.
C25_OnePrunePending ==
    /\ Cardinality(QueuedPrunes) <= 1
    /\ ~noPruneScheduled <=> QueuedPrunes # {}

\* C25, the steps: a set that exceeds a limit while a prune is pending queues
\* no second one, and the pass releases the flag when it begins.
C25_PruneCoalescingSteps ==
    [][/\ (SetStep /\ ~noPruneScheduled) =>
              /\ ~noPruneScheduled'
              /\ Cardinality(QueuedPrunes') = 1
       /\ (lastOp'.op = "prune" /\ now' = now) => noPruneScheduled']_vars

\* C25: prune coalescing. In every state at most one #prune is queued and the
\* flag records it exactly; a set while a prune is pending queues no second
\* one; the flag is released when the pass begins.
C25_PruneCoalescing ==
    /\ []C25_OnePrunePending
    /\ C25_PruneCoalescingSteps

\* C25 witness: a set that queued nothing has left the store over a limit
\* while the prune queued by an earlier set is still pending
C25_Witness ==
    /\ lastOp.op = "set"
    /\ lastOp.ttl = Infinity
    /\ ~WithinLimits
    /\ ~noPruneScheduled
    /\ Len(immediates) = 2
    /\ immediates[1].task = "prune"
    /\ immediates[2].task = "addTTL"

\* C26: a get(k) that returns a value moves k to the newest position and
\* changes nothing else: the other entries keep their order, every entry
\* (k's too) keeps its value, size and expiresAt, and the memory counter,
\* the expiry tree and the timer are unchanged.
C26_GetMovesOnlyKey ==
    [][(/\ lastOp'.op = "get"
        /\ now' = now
        /\ lastOp'.result # Undefined) =>
           /\ data' = Append(MapDelete(data, lastOp'.key),
                             MapGet(data, lastOp'.key))
           /\ UNCHANGED <<ttl, maxItems, memory, timeout, noPruneScheduled,
                          immediates, timers>>]_vars

\* C26 witness: a get has returned the value of the older of two entries,
\* right after a set of the other key, and its key is now the newest
C26_Witness ==
    /\ lastOp.op = "get"
    /\ lastOp.result # Undefined
    /\ lastOp.prev.op = "set"
    /\ lastOp.prev.key # lastOp.key
    /\ Len(data) = 2
    /\ data[2].key = lastOp.key

\* a delete step of a stored key
DeleteStep ==
    /\ lastOp'.op = "delete"
    /\ now' = now
    /\ lastOp'.key \in MapKeys(data)

\* the timer is armed for the smallest timestamp of the tree, or there is no
\* timer and #timeout.timestamp is Infinity when the tree is empty
RearmedForMinimum ==
    IF TreeBeginValid(timeout'.tree)
    THEN /\ timeout'.timestamp = TreeBeginKey(timeout'.tree)
         /\ timers' = {[id |-> timeout'.id,
                         at |-> MathMax(timeout'.timestamp, now)]}
    ELSE /\ timeout'.timestamp = Infinity
         /\ timers' = {}

\* C27: delete rearms the timer. When delete(k) removes the last key of the
\* bucket the timer is armed for, the bucket goes, the old timer is cancelled
\* and the timer is rearmed for the new smallest timestamp, or left unarmed
\* with #timeout.timestamp = Infinity when the tree is now empty; a delete of
\* a key registered in another bucket, or not the last of its bucket, leaves
\* the timer untouched.
C27_DeleteRearmsTimer ==
    [][(DeleteStep /\ Registered(lastOp'.key)) =>
           IF LastOfArmedBucket(lastOp'.key)
           THEN /\ timeout'.tree =
                       TreeRemove(timeout.tree,
                                  MapGet(data, lastOp'.key).expiresAt)
                /\ RearmedForMinimum
           ELSE /\ timers' = timers
                /\ timeout'.id = timeout.id
                /\ timeout'.timestamp = timeout.timestamp]_vars

\* C27 witness: a delete of the last key of the armed bucket has left the
\* timer armed for a later bucket
C27_Witness ==
    /\ lastOp.op = "delete"
    /\ lastOp.lastOfArmed
    /\ timers # {}
    /\ TreeBeginValid(timeout.tree)

\* the keys in the buckets of the expiry tree with timestamp <= t
DueKeys(t) == UNION {timeout.tree[x] : x \in {y \in DOMAIN timeout.tree : y <= t}}

\* C28: the timer callback at time now removes from the expiry tree exactly
\* the buckets with timestamp <= now and leaves the later ones unchanged;
\* every stored key of a removed bucket loses its entry and current drops by
\* its size; afterwards a timer is armed for the smallest remaining
\* timestamp if the tree is not empty.
C28_TimerCallback ==
    [][(lastOp'.op = "onKeyExpired" /\ now' = now) =>
           /\ timeout'.tree =
                  [x \in {y \in DOMAIN timeout.tree : y > now} |-> timeout.tree[x]]
           /\ data' = SelectSeq(data, LAMBDA e : e.key \notin DueKeys(now))
           /\ memory'.current =
                  memory.current - (SumOfSizes(data) - SumOfSizes(data'))
           /\ TreeBeginValid(timeout'.tree) =>
                  /\ timeout'.timestamp = TreeBeginKey(timeout'.tree)
                  /\ timers' = {[id |-> timeout'.id,
                                  at |-> MathMax(timeout'.timestamp, now)]}]_vars

\* C28 witness: the timer callback has reaped an entry, left a later bucket
\* in the tree and armed a timer
C28_Witness ==
    /\ lastOp.op = "onKeyExpired"
    /\ lastOp.reaped # {}
    /\ TreeBeginValid(timeout.tree)
    /\ timers # {}

\* C29: no empty buckets. In every state, every timestamp in the expiry tree
\* maps to a non-empty set of keys.
C29_NoEmptyBuckets == \A x \in DOMAIN timeout.tree : timeout.tree[x] # {}

\* C29 witness: a delete has taken the last key out of a bucket, and the tree
\* is empty
C29_Witness ==
    /\ lastOp.op = "delete"
    /\ lastOp.lastOfArmed
    /\ timeout.tree = EmptyTree

\* C30: no wake-up for a vanished bucket. Whenever a timer is outstanding,
\* the expiry tree is not empty and #timeout.timestamp, the timestamp the
\* timer is armed for, is in the tree and is its smallest; so the timer
\* callback never runs against an empty tree.
C30_ArmedForExistingBucket ==
    timers # {} =>
        /\ timeout.tree # EmptyTree
        /\ timeout.timestamp \in DOMAIN timeout.tree
        /\ \A y \in DOMAIN timeout.tree : timeout.timestamp <= y
        /\ \A h \in timers :
               h.id = timeout.id /\ h.at >= timeout.timestamp

\* C30 witness: a timer is outstanding after a prune pass has emptied the
\* store; the bucket it is armed for is still in the tree
C30_Witness ==
    /\ timers # {}
    /\ lastOp.op = "prune"
    /\ lastOp.evictions # <<>>
    /\ data = <<>>

\* C31: set with a finite ttl <= 0 is rejected or clamped. It never stores an
\* entry whose expiresAt is at or before the time of the set, and no timer
\* is armed with a zero or negative delay.
C31_NonPositiveTtlRejected ==
    [][/\ (SetStep /\ lastOp'.ttl <= 0) =>
              \A i \in 1..Len(data') :
                  data'[i].key = lastOp'.key => data'[i].expiresAt > now
       /\ \A h \in timers' \ timers : h.at > now]_vars

====
